---- MODULE Spec2Model ----
(***************************************************************************)
(* A model of the lox front end: the two scanners (tokenize.rs and         *)
(* tokenize2.rs), the recursive-descent parser (parser.rs), the            *)
(* environment (environ.rs) and the tree-walking evaluator (evaluate.rs),  *)
(* driven as main.rs drives them: one run of the pipeline on a source, or  *)
(* the prompt loop that runs it line after line on one Interpreter.  The   *)
(* public entries below the pipeline are driven as well: parser::parse and *)
(* Parser::parse_expression on a token list, Interpreter::evaluate on an   *)
(* AST, and the Environment methods on a chain of scopes.                  *)
(*                                                                         *)
(* Source text is a TLA+ string; positions are 0-based as in the Rust      *)
(* code, so the character at index i is SubSeq(s, i+1, i+1).  A Rust panic *)
(* (todo!, unwrap on None, slice out of range) is a defined outcome and is *)
(* recorded as the status "panic".                                         *)
(***************************************************************************)
EXTENDS Integers, Sequences, FiniteSets, TLC

VARIABLES
    session,    \* main.rs: run or run_prompt, the line it is at, the outcomes reported
    tokenizer,  \* the entry driven: "Scanner", "tokenize", "tokenize2", "Tokens", "AST",
                \* "Environment"
    source,     \* the source text handed to the scanner
    scanner,    \* tokenize.rs: the fields of struct Scanner
    scan2,      \* tokenize2.rs: the locals of scan_tokens (chars, result, line)
    scanned,    \* what the scanner returned: status, token list, scan errors
    ast,        \* what parser::parse returned
    interp,     \* evaluate.rs: struct Interpreter
    ip,         \* execute_statements: the index of the next statement
    stdout,     \* the lines printed by SPrint statements
    result,     \* what the run returned: Running, Ok, Err or Panic
    scopes,     \* environ.rs: the vars of a chain of Environments, the root first
    pc          \* the stage of the run: "scan", "parse", "eval", "done", "parsed", "environ"

vars ==
    <<session, tokenizer, source, scanner, scan2, scanned, ast, interp, ip, stdout, result,
      scopes, pc>>

(***************************************************************************)
(* Bounds of the model.                                                    *)
(***************************************************************************)
MaxPieces == 2

MaxStmts == 3

\* the lines one prompt session reads
MaxLines == 3

\* the Environments of one parent chain
MaxScopes == 2

(***************************************************************************)
(* Let(e, B) is B applied to the value of e, with e evaluated once.        *)
(* Try(e, B) is Rust's `?`: a result that is not Ok is returned as it is,  *)
(* an Ok result is handed on to B.                                         *)
(***************************************************************************)
Let(e, B(_)) == CHOOSE v \in {B(x) : x \in {e}} : TRUE

Try(e, B(_)) == Let(e, LAMBDA r : IF r.tag # "Ok" THEN r ELSE B(r))

(***************************************************************************)
(* Characters.                                                             *)
(***************************************************************************)
NUL == "NUL"

Digits == {"0", "1", "2", "3", "4", "5", "6", "7", "8", "9"}

Alphabetic == {"a", "b", "c", "d", "e", "f", "g", "h", "i", "j", "k", "l", "m",
               "n", "o", "p", "q", "r", "s", "t", "u", "v", "w", "x", "y", "z"}

Whitespace == {" ", "\t", "\r", "\n"}

is_digit(c) == c \in Digits

is_alphabetic(c) == c \in Alphabetic

is_alphanumeric(c) == c \in Alphabetic \cup Digits

is_whitespace(c) == c \in Whitespace

CharAt(s, i) == SubSeq(s, i + 1, i + 1)

\* &s[lo..hi] of Rust; callers check the range first, as the slice panics otherwise
Slice(s, lo, hi) == SubSeq(s, lo + 1, hi)

(***************************************************************************)
(* tokenize.rs: struct Scanner.                                            *)
(***************************************************************************)
Token(toktype, lexeme, literal, line) ==
    [toktype |-> toktype, lexeme |-> lexeme, literal |-> literal, line |-> line]

LiteralNone == <<"None">>

LiteralStr(v) == <<"Str", v>>

LiteralNum(v) == <<"Num", v>>

RECURSIVE Gcd(_, _)
Gcd(a, b) == IF b = 0 THEN a ELSE Gcd(b, a % b)

Abs(a) == IF a < 0 THEN -a ELSE a

\* an f64 is modelled by the exact fraction num/den in lowest terms, den > 0
F64(num, den) ==
    LET g == Gcd(Abs(num), den)
    IN  [num |-> num \div g, den |-> den \div g]

DigitVal(c) == CHOOSE d \in 0..9 : c = SubSeq("0123456789", d + 1, d + 1)

RECURSIVE ParseDigits(_, _)
ParseDigits(s, acc) ==
    IF s = "" THEN acc ELSE ParseDigits(Tail(s), acc * 10 + DigitVal(Head(s)))

RECURSIVE Pow10(_)
Pow10(n) == IF n = 0 THEN 1 ELSE 10 * Pow10(n - 1)

RECURSIVE DotIndex(_, _)
DotIndex(s, i) ==
    IF i >= Len(s) THEN Len(s)
    ELSE IF CharAt(s, i) = "." THEN i ELSE DotIndex(s, i + 1)

\* str::parse::<f64> on a lexeme of the shape digits [ "." digits ]
ParseF64(lexeme) ==
    LET d == DotIndex(lexeme, 0)
        int == Slice(lexeme, 0, d)
        frac == IF d < Len(lexeme) THEN Slice(lexeme, d + 1, Len(lexeme)) ELSE ""
    IN  F64(ParseDigits(int \o frac, 0), Pow10(Len(frac)))

ScannerNew(s) ==
    [tokens |-> <<>>, start |-> 0, current |-> 0, line |-> 1]

is_at_end(s, sc) == sc.current >= Len(s)

peek(s, sc) == IF is_at_end(s, sc) THEN NUL ELSE CharAt(s, sc.current)

advance(sc) == [sc EXCEPT !.current = @ + 1]

matches(s, sc, expected) ==
    IF is_at_end(s, sc) THEN FALSE
    ELSE CharAt(s, sc.current) = expected

add_token_with_literal(s, sc, toktype, literal) ==
    [sc EXCEPT !.tokens =
        Append(@, Token(toktype, Slice(s, sc.start, sc.current), literal, sc.line))]

add_token(s, sc, toktype) == add_token_with_literal(s, sc, toktype, LiteralNone)

\* the four one-or-two character operators: '!', '=', '<', '>'
CompareOne(c) ==
    CASE c = "!" -> "Bang" [] c = "=" -> "Equal"
      [] c = "<" -> "Less" [] c = ">" -> "Greater"

CompareTwo(c) ==
    CASE c = "!" -> "BangEqual" [] c = "=" -> "EqualEqual"
      [] c = "<" -> "LessEqual" [] c = ">" -> "GreaterEqual"

scan_compare(s, sc, c) ==
    IF matches(s, sc, "=")
    THEN add_token(s, advance(sc), CompareTwo(c))
    ELSE add_token(s, sc, CompareOne(c))

SimpleType(c) ==
    CASE c = "(" -> "LeftParen" [] c = ")" -> "RightParen"
      [] c = "{" -> "LeftBrace" [] c = "}" -> "RightBrace"
      [] c = "," -> "Comma" [] c = "." -> "Dot"
      [] c = "-" -> "Minus" [] c = "+" -> "Plus"
      [] c = ";" -> "Semicolon" [] c = "*" -> "Star"

RECURSIVE skip_comment(_, _)
skip_comment(s, sc) ==
    IF peek(s, sc) # "\n" /\ ~is_at_end(s, sc)
    THEN skip_comment(s, advance(sc))
    ELSE sc

RECURSIVE string_body(_, _)
string_body(s, sc) ==
    IF peek(s, sc) # "\"" /\ ~is_at_end(s, sc)
    THEN string_body(s, advance(IF peek(s, sc) = "\n"
                                THEN [sc EXCEPT !.line = @ + 1] ELSE sc))
    ELSE sc

\* Scanner::string; the result carries panicked = TRUE at todo!("Unterminated string")
string(s, sc0) ==
    Let(string_body(s, sc0), LAMBDA sc :
    IF is_at_end(s, sc)
    THEN [sc |-> sc, panicked |-> TRUE]
    ELSE LET sc1 == advance(sc)
             value == Slice(s, sc1.start + 1, sc1.current - 1)
         IN  [sc |-> add_token_with_literal(s, sc1, "String", LiteralStr(value)),
              panicked |-> FALSE])

RECURSIVE digits(_, _)
digits(s, sc) == IF is_digit(peek(s, sc)) THEN digits(s, advance(sc)) ELSE sc

number(s, sc0) ==
    Let(digits(s, sc0), LAMBDA sc1 :
    Let(IF peek(s, sc1) = "." THEN digits(s, advance(sc1)) ELSE sc1, LAMBDA sc2 :
    LET lexeme == Slice(s, sc2.start, sc2.current)
    IN  add_token_with_literal(s, sc2, "Number", LiteralNum(ParseF64(lexeme)))))

RECURSIVE ident_body(_, _)
ident_body(s, sc) ==
    IF is_alphanumeric(peek(s, sc)) \/ peek(s, sc) = "_"
    THEN ident_body(s, advance(sc))
    ELSE sc

Keywords ==
    {"and", "class", "else", "false", "for", "fun", "if", "nil", "or",
     "print", "return", "super", "this", "true", "var", "while"}

KeywordType(lexeme) ==
    CASE lexeme = "and" -> "And" [] lexeme = "class" -> "Class"
      [] lexeme = "else" -> "Else" [] lexeme = "false" -> "False"
      [] lexeme = "for" -> "For" [] lexeme = "fun" -> "Fun"
      [] lexeme = "if" -> "If" [] lexeme = "nil" -> "Nil"
      [] lexeme = "or" -> "Or" [] lexeme = "print" -> "Print"
      [] lexeme = "return" -> "Return" [] lexeme = "super" -> "Super"
      [] lexeme = "this" -> "This" [] lexeme = "true" -> "True"
      [] lexeme = "var" -> "Var" [] lexeme = "while" -> "While"
      [] OTHER -> "Identifier"

identifier(s, sc0) ==
    Let(ident_body(s, sc0), LAMBDA sc :
    add_token(s, sc, KeywordType(Slice(s, sc.start, sc.current))))

\* Scanner::scan_token: one pass of the match on self.advance()
scan_token(s, sc0) ==
    LET c == CharAt(s, sc0.current)
        sc == advance(sc0)
        ok(r) == [sc |-> r, panicked |-> FALSE]
    IN  CASE c \in {"(", ")", "{", "}", ",", ".", "-", "+", ";", "*"} ->
                ok(add_token(s, sc, SimpleType(c)))
          [] c \in {"!", "=", "<", ">"} -> ok(scan_compare(s, sc, c))
          [] c = "/" ->
                IF matches(s, sc, "/")
                THEN ok(skip_comment(s, advance(sc)))
                ELSE ok(add_token(s, sc, "Slash"))
          [] c \in {" ", "\r", "\t"} -> ok(sc)
          [] c = "\n" -> ok([sc EXCEPT !.line = @ + 1])
          [] c = "\"" -> string(s, sc)
          [] is_digit(c) -> ok(number(s, sc))
          [] is_alphabetic(c) -> ok(identifier(s, sc))
          [] OTHER -> [sc |-> sc, panicked |-> TRUE]

(***************************************************************************)
(* tokenize2.rs: the scanner built from Option-returning functions over    *)
(* chars: Peekable<CharIndices>.  The iterator is modelled by the index of *)
(* its next character; a function's result is None or                     *)
(* Some((toktype, lo..hi)) together with the iterator it leaves behind.    *)
(***************************************************************************)
Token2(toktype, lexeme, line) ==
    [toktype |-> toktype, lexeme |-> lexeme, line |-> line]

None2(chars) == [some |-> FALSE, chars |-> chars]

Some2(toktype, lo, hi, chars) ==
    [some |-> TRUE, toktype |-> toktype, lo |-> lo, hi |-> hi, chars |-> chars]

\* chars.peek() yields a character
has_next(s, chars) == chars < Len(s)

accept2(s, chars, toktype, start) ==
    IF ~has_next(s, chars) THEN None2(chars)
    ELSE Some2(toktype, start, chars + 1, chars + 1)

peek2(s, chars, ch) == has_next(s, chars) /\ CharAt(s, chars) = ch

\* the loop `while let Some(&(n, ch)) = chars.peek()` shared by ignore_whitespace,
\* scan_number and scan_identifier: consume while the class holds, end = last n
RECURSIVE whitespace_run(_, _, _)
whitespace_run(s, chars, end) ==
    IF has_next(s, chars) /\ is_whitespace(CharAt(s, chars))
    THEN whitespace_run(s, chars + 1, chars)
    ELSE [chars |-> chars, end |-> end]

ignore_whitespace(s, chars) ==
    IF ~has_next(s, chars) THEN None2(chars)
    ELSE IF is_whitespace(CharAt(s, chars))
         THEN LET r == whitespace_run(s, chars, chars + 1)
              IN  Some2("TIgnore", chars, r.end + 1, r.chars)
         ELSE None2(chars)

SimpleType2(ch) ==
    CASE ch = "+" -> "TPlus" [] ch = "-" -> "TMinus" [] ch = "*" -> "TStar"
      [] ch = "(" -> "TLeftParen" [] ch = ")" -> "TRightParen"
      [] ch = "{" -> "TLeftBrace" [] ch = "}" -> "TRightBrace"
      [] ch = ";" -> "TSemiColon" [] ch = "," -> "TComma" [] ch = "." -> "TDot"

scan_simple_symbol(s, chars) ==
    IF ~has_next(s, chars) THEN None2(chars)
    ELSE LET ch == CharAt(s, chars)
         IN  IF ch \in {"+", "-", "*", "(", ")", "{", "}", ";", ",", "."}
             THEN accept2(s, chars, SimpleType2(ch), chars)
             ELSE None2(chars)

CompareOne2(ch) ==
    CASE ch = "<" -> "TLess" [] ch = ">" -> "TGreater"
      [] ch = "=" -> "TEqual" [] ch = "!" -> "TBang"

CompareTwo2(ch) ==
    CASE ch = "<" -> "TLessEqual" [] ch = ">" -> "TGreaterEqual"
      [] ch = "=" -> "TEqualEqual" [] ch = "!" -> "TBangEqual"

\* scan_compare_symbol without the look at the next character
scan_compare_symbol_no_munch(s, chars) ==
    IF ~has_next(s, chars) THEN None2(chars)
    ELSE LET ch == CharAt(s, chars)
         IN  IF ch \in {"<", ">", "=", "!"}
             THEN Some2(CompareOne2(ch), chars, chars + 1, chars + 1)
             ELSE None2(chars)

scan_compare_symbol(s, chars) ==
    IF ~has_next(s, chars) THEN None2(chars)
    ELSE LET ch == CharAt(s, chars)
             start == chars
         IN  IF ch \in {"<", ">", "=", "!"}
             THEN IF peek2(s, chars + 1, "=")
                  THEN accept2(s, chars + 1, CompareTwo2(ch), start)
                  ELSE Some2(CompareOne2(ch), start, start + 1, chars + 1)
             ELSE None2(chars)

RECURSIVE digit_run(_, _, _)
digit_run(s, chars, end) ==
    IF has_next(s, chars) /\ is_digit(CharAt(s, chars))
    THEN digit_run(s, chars + 1, chars)
    ELSE [chars |-> chars, end |-> end]

scan_number(s, chars) ==
    IF ~has_next(s, chars) THEN None2(chars)
    ELSE IF is_digit(CharAt(s, chars))
         THEN LET r1 == digit_run(s, chars, chars)
                  r2 == IF peek2(s, r1.chars, ".")
                        THEN digit_run(s, r1.chars + 1, r1.end)
                        ELSE r1
              IN  Some2("TNumber", chars, r2.end + 1, r2.chars)
         ELSE None2(chars)

\* `while let Some((n, ch)) = chars.next()`: end = n, stop after a closing quote
RECURSIVE string_run(_, _, _)
string_run(s, chars, end) ==
    IF ~has_next(s, chars) THEN [chars |-> chars, end |-> end]
    ELSE IF CharAt(s, chars) = "\""
         THEN [chars |-> chars + 1, end |-> chars]
         ELSE string_run(s, chars + 1, chars)

scan_string(s, chars) ==
    IF ~has_next(s, chars) THEN None2(chars)
    ELSE IF CharAt(s, chars) = "\""
         THEN LET r == string_run(s, chars + 1, chars + 1)
              IN  Some2("TString", chars, r.end + 1, r.chars)
         ELSE None2(chars)

RECURSIVE ident_run(_, _, _)
ident_run(s, chars, end) ==
    IF has_next(s, chars) /\ (is_alphanumeric(CharAt(s, chars)) \/ CharAt(s, chars) = "_")
    THEN ident_run(s, chars + 1, chars)
    ELSE [chars |-> chars, end |-> end]

scan_identifier(s, chars) ==
    IF ~has_next(s, chars) THEN None2(chars)
    ELSE IF is_alphabetic(CharAt(s, chars)) \/ CharAt(s, chars) = "_"
         THEN LET r == ident_run(s, chars, chars)
              IN  Some2("TIdentifier", chars, r.end + 1, r.chars)
         ELSE None2(chars)

or_else(a, b) == IF a.some THEN a ELSE b

scan_token2(s, chars) ==
    or_else(scan_simple_symbol(s, chars),
    or_else(scan_compare_symbol(s, chars),
    or_else(ignore_whitespace(s, chars),
    or_else(scan_number(s, chars),
    or_else(scan_identifier(s, chars),
            scan_string(s, chars))))))

ScanTokens2New == [chars |-> 0, result |-> <<>>, line |-> 1]

(***************************************************************************)
(* tokenize.rs: pub fn tokenize, the function main.rs calls.  It ignores   *)
(* its source and returns an empty token list.                             *)
(***************************************************************************)
tokenize(s) == <<>>

(***************************************************************************)
(* ast.rs: expressions and statements.  An Option is a sequence of length  *)
(* at most one.  EAssign is the variant parser.rs builds with Expr::assign *)
(* and evaluate.rs destructures.                                           *)
(***************************************************************************)
ENumber(value) == [type |-> "ENumber", value |-> value]

EString(value) == [type |-> "EString", value |-> value]

EBool(value) == [type |-> "EBool", value |-> value]

ENil == [type |-> "ENil"]

EBinary(left, op, right) == [type |-> "EBinary", left |-> left, op |-> op, right |-> right]

EUnary(op, right) == [type |-> "EUnary", op |-> op, right |-> right]

EGrouping(expr) == [type |-> "EGrouping", expr |-> expr]

EVariable(name) == [type |-> "EVariable", name |-> name]

EAssign(name, value) == [type |-> "EAssign", name |-> name, value |-> value]

SPrint(expr) == [type |-> "SPrint", expr |-> expr]

SExpression(expr) == [type |-> "SExpression", expr |-> expr]

SVarDecl(name, initializer) == [type |-> "SVarDecl", name |-> name, initializer |-> initializer]

(***************************************************************************)
(* parser.rs: struct Parser.  The token list is fixed, the cursor n is     *)
(* threaded through: a parse function's result is Ok with the cursor it    *)
(* leaves and the node, Err with the SyntaxError, or Panic.  The parser    *)
(* names the token kinds of tokenize2.rs; its TSemicolon is that file's    *)
(* TSemiColon.                                                             *)
(***************************************************************************)
POk(n, val) == [tag |-> "Ok", n |-> n, val |-> val]

PPanic(n, msg) == [tag |-> "Panic", n |-> n, msg |-> msg]

at_end(toks, n) == n >= Len(toks) \/ toks[n + 1].toktype = "TEof"

accept(toks, n, toktype) == ~at_end(toks, n) /\ toks[n + 1].toktype = toktype

accepts(toks, n, toktypes) == ~at_end(toks, n) /\ toks[n + 1].toktype \in toktypes

\* Err(self.syntax_error(msg)); self.tokens[self.n] panics past the end of the list
syntax_error(toks, n, msg) ==
    IF n < Len(toks)
    THEN [tag |-> "Err", n |-> n, line |-> toks[n + 1].line,
          msg |-> msg, at |-> toks[n + 1].lexeme]
    ELSE PPanic(n, "index out of bounds")

last_token(toks, n) == toks[n]

last_lexeme(toks, n) == toks[n].lexeme

consume(toks, n, toktype, msg) ==
    IF accept(toks, n, toktype) THEN POk(n + 1, <<>>) ELSE syntax_error(toks, n, msg)

OperatorFrom(tok) ==
    CASE tok.toktype = "TPlus" -> "OAdd" [] tok.toktype = "TMinus" -> "OSub"
      [] tok.toktype = "TStar" -> "OMul" [] tok.toktype = "TSlash" -> "ODiv"
      [] tok.toktype = "TLess" -> "OLt" [] tok.toktype = "TLessEqual" -> "OLe"
      [] tok.toktype = "TGreater" -> "OGt" [] tok.toktype = "TGreaterEqual" -> "OGe"
      [] tok.toktype = "TEqualEqual" -> "OEq" [] tok.toktype = "TBangEqual" -> "ONe"
      [] tok.toktype = "TAnd" -> "OAnd" [] tok.toktype = "TOr" -> "OOr"
      [] tok.toktype = "TBang" -> "ONot"

BinaryTokens ==
    {"TPlus", "TMinus", "TStar", "TSlash", "TLess", "TLessEqual", "TGreater",
     "TGreaterEqual", "TEqualEqual", "TBangEqual"}

RECURSIVE parse_expression(_, _)
RECURSIVE parse_assignment(_, _)
RECURSIVE parse_binary(_, _)
RECURSIVE parse_unary(_, _)
RECURSIVE parse_primary(_, _)

parse_primary(toks, n) ==
    IF accept(toks, n, "TNumber") THEN POk(n + 1, ENumber(last_lexeme(toks, n + 1)))
    ELSE IF accept(toks, n, "TString")
    THEN LET lexeme == last_lexeme(toks, n + 1)
         IN  IF Len(lexeme) >= 2
             THEN POk(n + 1, EString(Slice(lexeme, 1, Len(lexeme) - 1)))
             ELSE PPanic(n + 1, "slice index out of range")
    ELSE IF accept(toks, n, "TNil") THEN POk(n + 1, ENil)
    ELSE IF accept(toks, n, "TTrue") THEN POk(n + 1, EBool(TRUE))
    ELSE IF accept(toks, n, "TFalse") THEN POk(n + 1, EBool(FALSE))
    ELSE IF accept(toks, n, "TLeftParen")
    THEN Try(parse_expression(toks, n + 1), LAMBDA expr :
         Try(consume(toks, expr.n, "TRightParen", "Expect ')' after expression."), LAMBDA c :
         POk(c.n, EGrouping(expr.val))))
    ELSE IF accept(toks, n, "TIdentifier")
    THEN POk(n + 1, EVariable(last_lexeme(toks, n + 1)))
    ELSE syntax_error(toks, n, "Expected primary")

parse_unary(toks, n) ==
    IF accepts(toks, n, {"TMinus", "TBang"})
    THEN Try(parse_expression(toks, n + 1), LAMBDA e :
         POk(e.n, EUnary(OperatorFrom(last_token(toks, n + 1)), e.val)))
    ELSE parse_primary(toks, n)

parse_binary(toks, n) ==
    Try(parse_unary(toks, n), LAMBDA left :
    IF accepts(toks, left.n, BinaryTokens)
    THEN Try(parse_unary(toks, left.n + 1), LAMBDA right :
         POk(right.n, EBinary(left.val, OperatorFrom(last_token(toks, left.n + 1)),
                              right.val)))
    ELSE left)

parse_assignment(toks, n) ==
    Try(parse_binary(toks, n), LAMBDA expr :
    IF accept(toks, expr.n, "TEqual")
    THEN Try(parse_assignment(toks, expr.n + 1), LAMBDA value :
         IF expr.val.type = "EVariable"
         THEN POk(value.n, EAssign(expr.val.name, value.val))
         ELSE PPanic(value.n, "invalid assignment target"))
    ELSE expr)

parse_expression(toks, n) == parse_assignment(toks, n)

parse_var_declaration(toks, n) ==
    Try(consume(toks, n, "TIdentifier", "Expect variable name"), LAMBDA c1 :
    Try(IF accept(toks, c1.n, "TEqual")
        THEN Try(parse_expression(toks, c1.n + 1), LAMBDA e : POk(e.n, <<e.val>>))
        ELSE POk(c1.n, <<>>), LAMBDA initializer :
    Try(consume(toks, initializer.n, "TSemiColon", "Expect ';' after variable declaration"),
        LAMBDA c2 :
    POk(c2.n, SVarDecl(last_lexeme(toks, c1.n), initializer.val)))))

parse_print_statement(toks, n) ==
    Try(parse_expression(toks, n), LAMBDA value :
    Try(consume(toks, value.n, "TSemiColon", "Expected ';' after value."), LAMBDA c :
    POk(c.n, SPrint(value.val))))

parse_expression_statement(toks, n) ==
    Try(parse_expression(toks, n), LAMBDA value :
    Try(consume(toks, value.n, "TSemiColon", "Expected ';' after value."), LAMBDA c :
    POk(c.n, SExpression(value.val))))

parse_statement(toks, n) ==
    IF accept(toks, n, "TPrint")
    THEN parse_print_statement(toks, n + 1)
    ELSE parse_expression_statement(toks, n)

parse_declaration(toks, n) ==
    IF accept(toks, n, "TVar")
    THEN parse_var_declaration(toks, n + 1)
    ELSE parse_statement(toks, n)

RECURSIVE parse_statements(_, _, _)
parse_statements(toks, n, statements) ==
    IF at_end(toks, n) THEN POk(n, statements)
    ELSE Try(parse_declaration(toks, n), LAMBDA d :
         Let(Append(statements, d.val), LAMBDA pushed :
         parse_statements(toks, d.n, pushed)))

parse_top(toks) ==
    Try(parse_statements(toks, 0, <<>>), LAMBDA top :
    IF ~at_end(toks, top.n) THEN syntax_error(toks, top.n, "Unparsed input")
    ELSE POk(top.n, [top |-> top.val]))

\* pub fn parse: Parser::new(tokens).parse_top()
parse(tokens) == parse_top(tokens)

(***************************************************************************)
(* environ.rs: struct Environment.  vars is a function from the declared   *)
(* names to their values; parent is an Option.                             *)
(***************************************************************************)
EnvironmentNew(parent) == [parent |-> parent, vars |-> <<>>]

\* HashMap::insert
Insert(map, name, value) ==
    [k \in DOMAIN map \cup {name} |-> IF k = name THEN value ELSE map[k]]

declare(env, name, value) == [env EXCEPT !.vars = Insert(@, name, value)]

lookup(env, name) == IF name \in DOMAIN env.vars THEN <<env.vars[name]>> ELSE <<>>

assign(env, name, value) == [env EXCEPT !.vars = Insert(@, name, value)]

\* the Environment whose vars are sc[i]; its parent is the Environment of sc[i - 1]
RECURSIVE Scope(_, _)
Scope(sc, i) ==
    [parent |-> IF i = 1 THEN <<>> ELSE <<Scope(sc, i - 1)>>, vars |-> sc[i]]

\* the vars of an Environment and of its ancestors, the root first
RECURSIVE Frames(_)
Frames(env) ==
    IF env.parent = <<>> THEN <<env.vars>> ELSE Append(Frames(env.parent[1]), env.vars)

(***************************************************************************)
(* evaluate.rs: LoxValue, its two formats, and the evaluator.  The         *)
(* environment is mutated in place through a RefCell, so every result      *)
(* carries the environment as the evaluation left it.                      *)
(***************************************************************************)
LNil == [tag |-> "LNil"]

LBoolean(b) == [tag |-> "LBoolean", b |-> b]

LNumber(x) == [tag |-> "LNumber", x |-> x]

LString(str) == [tag |-> "LString", str |-> str]

\* #[derive(PartialEq)] on LoxValue: values of different variants are never equal
ValueEq(v, w) ==
    /\ v.tag = w.tag
    /\ CASE v.tag = "LNil" -> TRUE
         [] v.tag = "LBoolean" -> v.b = w.b
         [] v.tag = "LNumber" -> v.x = w.x
         [] v.tag = "LString" -> v.str = w.str

is_truthy(v) ==
    CASE v.tag = "LNil" -> FALSE
      [] v.tag = "LBoolean" -> v.b
      [] OTHER -> TRUE

FAdd(x, y) == F64(x.num * y.den + y.num * x.den, x.den * y.den)

FNeg(x) == F64(-x.num, x.den)

FSub(x, y) == FAdd(x, FNeg(y))

FMul(x, y) == F64(x.num * y.num, x.den * y.den)

FDiv(x, y) ==
    IF y.num > 0 THEN F64(x.num * y.den, x.den * y.num)
    ELSE F64(-(x.num * y.den), x.den * (-y.num))

FLt(x, y) == x.num * y.den < y.num * x.den

FLe(x, y) == x.num * y.den <= y.num * x.den

FZero == F64(0, 1)

RECURSIVE NatToStr(_)
NatToStr(n) ==
    IF n < 10 THEN SubSeq("0123456789", n + 1, n + 1)
    ELSE NatToStr(n \div 10) \o SubSeq("0123456789", (n % 10) + 1, (n % 10) + 1)

\* the fractional digits of r/den for a den that divides a power of ten
RECURSIVE FracDigits(_, _)
FracDigits(r, den) ==
    IF r = 0 THEN ""
    ELSE NatToStr((r * 10) \div den) \o FracDigits((r * 10) % den, den)

\* format!("{v}") of an f64 that is a finite decimal
DisplayF64(x) ==
    LET a == Abs(x.num)
        sign == IF x.num < 0 THEN "-" ELSE ""
    IN  sign \o NatToStr(a \div x.den) \o
        (IF a % x.den = 0 THEN "" ELSE "." \o FracDigits(a % x.den, x.den))

\* format!("{v:?}") of an f64: an integral value keeps a ".0"
DebugF64(x) == IF x.den = 1 THEN DisplayF64(x) \o ".0" ELSE DisplayF64(x)

\* impl Display for LoxValue
Display(v) ==
    CASE v.tag = "LNil" -> "nil"
      [] v.tag = "LBoolean" -> (IF v.b THEN "true" ELSE "false")
      [] v.tag = "LNumber" -> DisplayF64(v.x)
      [] v.tag = "LString" -> v.str

\* #[derive(Debug)] on LoxValue, as println!("{value:?}") prints it
Debug(v) ==
    CASE v.tag = "LNil" -> "LNil"
      [] v.tag = "LBoolean" -> "LBoolean(" \o (IF v.b THEN "true" ELSE "false") \o ")"
      [] v.tag = "LNumber" -> "LNumber(" \o DebugF64(v.x) \o ")"
      [] v.tag = "LString" -> "LString(\"" \o v.str \o "\")"

VOk(val, env) == [tag |-> "Ok", val |-> val, env |-> env]

VErr(error, env) == [tag |-> "Err", error |-> error, env |-> env]

VPanic(msg, env) == [tag |-> "Panic", msg |-> msg, env |-> env]

ZeroDivision == [kind |-> "ZeroDivision"]

\* UnsupportedBinOp built with its operands in the wrong order
UnsupportedBinOpSwapped(left, op, right) ==
    [kind |-> "UnsupportedBinOp", left |-> right, op |-> op, right |-> left]

UnsupportedBinOp(left, op, right) ==
    [kind |-> "UnsupportedBinOp", left |-> left, op |-> op, right |-> right]

UnsupportedUnaryOp(op, value) == [kind |-> "UnsupportedUnaryOp", op |-> op, value |-> value]

\* the match of the EBinary arm without the test of y == 0.0 in its ODiv arm
binary_op_unchecked_div(lv, op, rv, env) ==
    LET nums == lv.tag = "LNumber" /\ rv.tag = "LNumber"
        x == lv.x
        y == rv.x
    IN  CASE nums /\ op = "OAdd" -> VOk(LNumber(FAdd(x, y)), env)
          [] nums /\ op = "OSub" -> VOk(LNumber(FSub(x, y)), env)
          [] nums /\ op = "OMul" -> VOk(LNumber(FMul(x, y)), env)
          [] nums /\ op = "ODiv" ->
                VOk(LNumber(IF y = FZero THEN FZero ELSE FDiv(x, y)), env)
          [] nums /\ op = "OLt" -> VOk(LBoolean(FLt(x, y)), env)
          [] nums /\ op = "OLe" -> VOk(LBoolean(FLe(x, y)), env)
          [] nums /\ op = "OGt" -> VOk(LBoolean(FLt(y, x)), env)
          [] nums /\ op = "OGe" -> VOk(LBoolean(FLe(y, x)), env)
          [] lv.tag = "LString" /\ rv.tag = "LString" /\ op = "OAdd" ->
                VOk(LString(lv.str \o rv.str), env)
          [] ~(nums /\ op \in {"OAdd", "OSub", "OMul", "ODiv", "OLt", "OLe", "OGt", "OGe"})
             /\ ~(lv.tag = "LString" /\ rv.tag = "LString" /\ op = "OAdd")
             /\ op = "OEq" -> VOk(LBoolean(ValueEq(lv, rv)), env)
          [] ~(nums /\ op \in {"OAdd", "OSub", "OMul", "ODiv", "OLt", "OLe", "OGt", "OGe"})
             /\ ~(lv.tag = "LString" /\ rv.tag = "LString" /\ op = "OAdd")
             /\ op = "ONe" -> VOk(LBoolean(~ValueEq(lv, rv)), env)
          [] OTHER -> VErr([kind |-> "UnsupportedBinOp", left |-> lv, op |-> op,
                            right |-> rv], env)

\* the match on (lv, op, rv) of the EBinary arm
binary_op(lv, op, rv, env) ==
    LET nums == lv.tag = "LNumber" /\ rv.tag = "LNumber"
        x == lv.x
        y == rv.x
    IN  CASE nums /\ op = "OAdd" -> VOk(LNumber(FAdd(x, y)), env)
          [] nums /\ op = "OSub" -> VOk(LNumber(FSub(x, y)), env)
          [] nums /\ op = "OMul" -> VOk(LNumber(FMul(x, y)), env)
          [] nums /\ op = "ODiv" ->
                IF y = FZero THEN VErr(ZeroDivision, env)
                ELSE VOk(LNumber(FDiv(x, y)), env)
          [] nums /\ op = "OLt" -> VOk(LBoolean(FLt(x, y)), env)
          [] nums /\ op = "OLe" -> VOk(LBoolean(FLe(x, y)), env)
          [] nums /\ op = "OGt" -> VOk(LBoolean(FLt(y, x)), env)
          [] nums /\ op = "OGe" -> VOk(LBoolean(FLe(y, x)), env)
          [] lv.tag = "LString" /\ rv.tag = "LString" /\ op = "OAdd" ->
                VOk(LString(lv.str \o rv.str), env)
          [] ~(nums /\ op \in {"OAdd", "OSub", "OMul", "ODiv", "OLt", "OLe", "OGt", "OGe"})
             /\ ~(lv.tag = "LString" /\ rv.tag = "LString" /\ op = "OAdd")
             /\ op = "OEq" -> VOk(LBoolean(ValueEq(lv, rv)), env)
          [] ~(nums /\ op \in {"OAdd", "OSub", "OMul", "ODiv", "OLt", "OLe", "OGt", "OGe"})
             /\ ~(lv.tag = "LString" /\ rv.tag = "LString" /\ op = "OAdd")
             /\ op = "ONe" -> VOk(LBoolean(~ValueEq(lv, rv)), env)
          [] OTHER -> VErr(UnsupportedBinOp(lv, op, rv), env)

\* the match on (op, rv) of the EUnary arm
unary_op(op, rv, env) ==
    CASE op = "OSub" /\ rv.tag = "LNumber" -> VOk(LNumber(FNeg(rv.x)), env)
      [] op = "ONot" -> VOk(LBoolean(~is_truthy(rv)), env)
      [] OTHER -> VErr(UnsupportedUnaryOp(op, rv), env)

RECURSIVE evaluate_expression(_, _)
evaluate_expression(expr, env) ==
    CASE expr.type = "ENumber" -> VOk(LNumber(ParseF64(expr.value)), env)
      [] expr.type = "EString" -> VOk(LString(expr.value), env)
      [] expr.type = "EBool" -> VOk(LBoolean(expr.value), env)
      [] expr.type = "ENil" -> VOk(LNil, env)
      [] expr.type = "EVariable" ->
            Let(lookup(env, expr.name), LAMBDA found :
            IF found = <<>> THEN VPanic("unwrap on None", env)
            ELSE VOk(found[1], env))
      [] expr.type = "EBinary" ->
            Try(evaluate_expression(expr.left, env), LAMBDA lv :
            Try(evaluate_expression(expr.right, lv.env), LAMBDA rv :
            binary_op(lv.val, expr.op, rv.val, rv.env)))
      [] expr.type = "EUnary" ->
            Try(evaluate_expression(expr.right, env), LAMBDA rv :
            unary_op(expr.op, rv.val, rv.env))
      [] expr.type = "EGrouping" -> evaluate_expression(expr.expr, env)
      [] expr.type = "EAssign" ->
            Try(evaluate_expression(expr.value, env), LAMBDA v :
            VOk(v.val, assign(v.env, expr.name, v.val)))

\* execute_statement: the result carries the environment and the lines printed
execute_statement(stmt, env) ==
    CASE stmt.type = "SPrint" ->
            Let(evaluate_expression(stmt.expr, env), LAMBDA value :
            [r |-> value,
             out |-> IF value.tag = "Ok" THEN <<Debug(value.val)>> ELSE <<>>])
      [] stmt.type = "SExpression" ->
            [r |-> evaluate_expression(stmt.expr, env), out |-> <<>>]
      [] stmt.type = "SVarDecl" ->
            [r |-> Try(IF stmt.initializer = <<>> THEN VOk(LNil, env)
                       ELSE evaluate_expression(stmt.initializer[1], env), LAMBDA iv :
                   VOk(LNil, declare(iv.env, stmt.name, iv.val))),
             out |-> <<>>]

\* Interpreter::new
InterpreterNew == [top_level |-> EnvironmentNew(<<>>)]

(***************************************************************************)
(* The sources the scanners are run on: every concatenation of at most     *)
(* MaxPieces pieces.  The pieces are single characters of each class the   *)
(* scanners dispatch on, the sixteen reserved words, and short statements. *)
(***************************************************************************)
LexPieces ==
    {"<", "=", "!", ">", "<=", "$", "\"", "\"a", "\"a\"", "\n", " ", "1", ".", "/",
     "x", "_", ";", "("}

StmtPieces == {"1=2;", "(x)=2;", "x=2;", "y;"}

Pieces == LexPieces \cup Keywords \cup StmtPieces

RECURSIVE Concat(_)
Concat(ps) == IF ps = <<>> THEN "" ELSE Head(ps) \o Concat(Tail(ps))

\* whole sources: the expressions of the tests of reader.rs, and comments
ExprSources == {"123", "\"hello\"", "(2)", "nil", "true", "false", "1 + 2"}

CommentSources == {"//x\n1", "1//", "1/2", "//\n//", "/ /"}

NumberSources == {"1.;", "1.5", "12.x"}

PrecedenceSources == {"1 + 2 == 3", "1 < 2 + 3", "1 + 2 == 3;"}

Sources ==
    {Concat(ps) : ps \in UNION {[1..k -> Pieces] : k \in 0..MaxPieces}}
        \cup ExprSources \cup CommentSources \cup NumberSources \cup PrecedenceSources

\* the lines typed at the prompt
ReplSources == {"x=1;", "x=2;", "x;", "1", "-\"a\";", "\""}

(***************************************************************************)
(* The token lists handed to Parser::new directly: every concatenation of  *)
(* at most MaxStmts pieces, closed by TEof.  A piece is one token of the   *)
(* parser's vocabulary or a short statement; the i-th token sits on line i *)
(* so that the line of a SyntaxError tells which token it read.            *)
(***************************************************************************)
Tok(toktype, lexeme) == [toktype |-> toktype, lexeme |-> lexeme]

TNum(lexeme) == Tok("TNumber", lexeme)

TId(lexeme) == Tok("TIdentifier", lexeme)

TEq == Tok("TEqual", "=")

TSemi == Tok("TSemiColon", ";")

SingleTokens ==
    {TNum("1"), TId("x"), TEq, TSemi, Tok("TString", "\"a\""), Tok("TNil", "nil"),
     Tok("TTrue", "true"), Tok("TLeftParen", "("), Tok("TRightParen", ")"),
     Tok("TPlus", "+"), Tok("TMinus", "-"), Tok("TBang", "!"),
     Tok("TEqualEqual", "=="), Tok("TLess", "<"), Tok("TPrint", "print"),
     Tok("TVar", "var")}

StmtTokens ==
    {<<TNum("1"), TEq, TNum("2"), TSemi>>,
     <<Tok("TLeftParen", "("), TId("x"), Tok("TRightParen", ")"), TEq, TNum("2"), TSemi>>,
     <<TId("x"), TEq, TNum("2"), TSemi>>,
     <<Tok("TVar", "var"), TId("x"), TEq, TNum("1"), TSemi>>,
     <<TId("x"), TEq, TId("x"), Tok("TPlus", "+"), TNum("2"), TSemi>>,
     <<Tok("TPrint", "print"), TId("x"), TSemi>>,
     <<Tok("TPrint", "print"), TId("y"), TSemi>>,
     <<TId("y"), TEq, TNum("1"), TSemi>>}

TokenPieces == {<<t>> : t \in SingleTokens} \cup StmtTokens

RECURSIVE Flatten(_)
Flatten(ps) == IF ps = <<>> THEN <<>> ELSE Head(ps) \o Flatten(Tail(ps))

Numbered(toks) ==
    [i \in 1..(Len(toks) + 1) |->
        IF i <= Len(toks) THEN Token2(toks[i].toktype, toks[i].lexeme, i)
        ELSE Token2("TEof", "", i)]

\* the tokens of `1 + 2 == 3` and of `1 < 2 + 3`
PrecedenceTokens ==
    {Numbered(<<TNum("1"), Tok("TPlus", "+"), TNum("2"), Tok("TEqualEqual", "=="), TNum("3")>>),
     Numbered(<<TNum("1"), Tok("TLess", "<"), TNum("2"), Tok("TPlus", "+"), TNum("3")>>)}

TokenLists ==
    {Numbered(Flatten(ps)) : ps \in UNION {[1..k -> TokenPieces] : k \in 0..MaxStmts}}
        \cup PrecedenceTokens

(***************************************************************************)
(* The programs handed to Interpreter::evaluate directly: a declaration    *)
(* and a print, then a statement on a binary expression of two literals,   *)
(* then an assignment and a print.                                         *)
(***************************************************************************)
Literals ==
    <<ENumber("0"), ENumber("1"), ENumber("2"), EString("a"), ENil, EBool(TRUE)>>

BinaryOperators ==
    {"OAdd", "OSub", "OMul", "ODiv", "OLt", "OLe", "OGt", "OGe", "OEq", "ONe"}

\* the program around the binary expression e; its third statement prints e or declares y
Program(e, prints) ==
    <<SVarDecl("x", <<ENumber("1")>>), SPrint(EVariable("x")),
      IF prints THEN SPrint(e) ELSE SVarDecl("y", <<e>>),
      SExpression(EAssign("x", ENumber("2"))), SPrint(EVariable("x"))>>

Redeclaration ==
    <<SVarDecl("x", <<ENumber("1")>>), SVarDecl("x", <<ENumber("2")>>),
      SPrint(EVariable("x"))>>

\* the names and values the Environment methods are called with
Names == {"x", "y"}

Values == {LNumber(F64(1, 1)), LNumber(F64(2, 1))}

Tokenizers == {"Scanner", "tokenize", "tokenize2", "Tokens", "AST", "Environment"}

Run == [kind |-> "run", line |-> 1, reported |-> <<>>]

Prompt == [kind |-> "prompt", line |-> 1, reported |-> <<>>]

Pending == [status |-> "pending", tokens |-> <<>>, errors |-> <<>>]

\* Ok(Tokens { tokens }): neither scanner ever builds a ScanError
Ok(tokens) == [status |-> "ok", tokens |-> tokens, errors |-> <<>>]

Panicked == [status |-> "panic", tokens |-> <<>>, errors |-> <<>>]

Running == [tag |-> "Running"]

ROk == [tag |-> "Ok"]

RErr(stage, error) == [tag |-> "Err", stage |-> stage, error |-> error]

RPanic(stage) == [tag |-> "Panic", stage |-> stage]

NotParsed == [tag |-> "None"]

Init ==
    /\ tokenizer \in Tokenizers
    /\ session \in {Run, Prompt}
    /\ session = Prompt => tokenizer \in {"tokenize", "tokenize2"}
    /\ CASE tokenizer = "Tokens" ->
                /\ source = ""
                /\ \E toks \in TokenLists : scanned = Ok(toks)
                /\ ast = NotParsed
                /\ pc = "parse"
         [] tokenizer = "AST" ->
                /\ source = ""
                /\ scanned = Pending
                /\ \/ \E l \in DOMAIN Literals, op \in BinaryOperators,
                         r \in DOMAIN Literals, prints \in BOOLEAN :
                          ast = POk(0, [top |-> Program(EBinary(Literals[l], op,
                                                                 Literals[r]), prints)])
                   \/ ast = POk(0, [top |-> Redeclaration])
                /\ pc = "eval"
         [] tokenizer = "Environment" ->
                /\ source = ""
                /\ scanned = Pending
                /\ ast = NotParsed
                /\ pc = "environ"
         [] OTHER ->
                /\ source \in (IF session = Prompt THEN ReplSources ELSE Sources)
                /\ scanned = Pending
                /\ ast = NotParsed
                /\ pc = "scan"
    /\ scanner = ScannerNew(source)
    /\ scan2 = ScanTokens2New
    /\ scopes = <<EnvironmentNew(<<>>).vars>>
    /\ interp = InterpreterNew
    /\ ip = 1
    /\ stdout = <<>>
    /\ result = Running

(***************************************************************************)
(* Scanner::scan_tokens (tokenize.rs): one iteration of the while loop,    *)
(* and the push of Eof after it.  The Scanner is private to tokenize.rs;   *)
(* its run ends with the token list.                                       *)
(***************************************************************************)
ScannerScanToken ==
    /\ tokenizer = "Scanner" /\ pc = "scan"
    /\ ~is_at_end(source, scanner)
    /\ \E r \in {scan_token(source, [scanner EXCEPT !.start = scanner.current])} :
           /\ scanner' = r.sc
           /\ scanned' = IF r.panicked THEN Panicked ELSE scanned
           /\ result' = IF r.panicked THEN RPanic("Tokenize") ELSE result
           /\ pc' = IF r.panicked THEN "done" ELSE pc
    /\ UNCHANGED <<session, scopes, tokenizer, source, scan2, ast, interp, ip, stdout>>

ScannerEof ==
    /\ tokenizer = "Scanner" /\ pc = "scan"
    /\ is_at_end(source, scanner)
    /\ scanner' = [scanner EXCEPT !.tokens =
                      Append(@, Token("Eof", "", LiteralNone, scanner.line))]
    /\ scanned' = Ok(scanner'.tokens)
    /\ result' = ROk
    /\ pc' = "done"
    /\ UNCHANGED <<session, scopes, tokenizer, source, scan2, ast, interp, ip, stdout>>

(***************************************************************************)
(* scan_tokens (tokenize2.rs): one iteration of the while-let loop, and    *)
(* the push of TEof once scan_token answers None.                          *)
(***************************************************************************)
Scan2Token ==
    /\ tokenizer = "tokenize2" /\ pc = "scan"
    /\ \E r \in {scan_token2(source, scan2.chars)} :
           /\ r.some
           /\ IF r.toktype = "TIgnore"
              THEN /\ scan2' = [scan2 EXCEPT !.chars = r.chars]
                   /\ UNCHANGED <<scanned, result, pc>>
              ELSE IF r.lo <= r.hi /\ r.hi <= Len(source)
              THEN /\ scan2' = [scan2 EXCEPT !.chars = r.chars,
                                    !.result = Append(@, Token2(r.toktype,
                                        Slice(source, r.lo, r.hi), scan2.line))]
                   /\ UNCHANGED <<scanned, result, pc>>
              ELSE \* &s[range] is out of range
                   /\ scan2' = [scan2 EXCEPT !.chars = r.chars]
                   /\ scanned' = Panicked
                   /\ result' = RPanic("Tokenize")
                   /\ pc' = "done"
    /\ UNCHANGED <<session, scopes, tokenizer, source, scanner, ast, interp, ip, stdout>>

Scan2Eof ==
    /\ tokenizer = "tokenize2" /\ pc = "scan"
    /\ ~scan_token2(source, scan2.chars).some
    /\ scan2' = [scan2 EXCEPT !.result = Append(@, Token2("TEof", "", scan2.line))]
    /\ scanned' = Ok(scan2'.result)
    /\ pc' = "parse"
    /\ UNCHANGED <<session, scopes, tokenizer, source, scanner, ast, interp, ip, stdout, result>>

(***************************************************************************)
(* run_interp (main.rs): tokenize::tokenize of tokenize.rs, parser::parse, *)
(* then Interpreter::evaluate, one statement of execute_statements a step. *)
(***************************************************************************)
Tokenize ==
    /\ tokenizer = "tokenize" /\ pc = "scan"
    /\ scanned' = Ok(tokenize(source))
    /\ pc' = "parse"
    /\ UNCHANGED <<session, scopes, tokenizer, source, scanner, scan2, ast, interp, ip, stdout, result>>

Parse ==
    /\ pc = "parse"
    /\ ast' = parse(scanned.tokens)
    /\ CASE ast'.tag = "Ok" -> pc' = "eval" /\ result' = result
         [] ast'.tag = "Err" ->
                /\ pc' = "done"
                /\ result' = RErr("Parse", [kind |-> "SyntaxError",
                                            line |-> ast'.line, msg |-> ast'.msg,
                                            at |-> ast'.at])
         [] ast'.tag = "Panic" -> pc' = "done" /\ result' = RPanic("Parse")
    /\ UNCHANGED <<session, scopes, tokenizer, source, scanner, scan2, scanned, interp, ip, stdout>>

\* execute_statements without the `?`: the error is noted and the loop goes on
ExecuteStatementKeepsGoing ==
    /\ pc = "eval"
    /\ ip <= Len(ast.val.top)
    /\ \E e \in {execute_statement(ast.val.top[ip], interp.top_level)} :
           /\ interp' = [interp EXCEPT !.top_level = e.r.env]
           /\ stdout' = stdout \o e.out
           /\ ip' = ip + 1
           /\ pc' = pc
           /\ result' = CASE e.r.tag = "Ok" -> result
                           [] e.r.tag = "Err" -> RErr("Evaluate", e.r.error)
                           [] e.r.tag = "Panic" -> RPanic("Evaluate")
    /\ UNCHANGED <<session, scopes, tokenizer, source, scanner, scan2, scanned, ast>>

ExecuteStatement ==
    /\ pc = "eval"
    /\ ip <= Len(ast.val.top)
    /\ \E e \in {execute_statement(ast.val.top[ip], interp.top_level)} :
           /\ interp' = [interp EXCEPT !.top_level = e.r.env]
           /\ stdout' = stdout \o e.out
           /\ CASE e.r.tag = "Ok" -> ip' = ip + 1 /\ UNCHANGED <<result, pc>>
                [] e.r.tag = "Err" ->
                       /\ result' = RErr("Evaluate", e.r.error)
                       /\ pc' = "done"
                       /\ ip' = ip
                [] e.r.tag = "Panic" ->
                       /\ result' = RPanic("Evaluate")
                       /\ pc' = "done"
                       /\ ip' = ip
    /\ UNCHANGED <<session, scopes, tokenizer, source, scanner, scan2, scanned, ast>>

EvaluateOk ==
    /\ pc = "eval"
    /\ ip > Len(ast.val.top)
    /\ result' = ROk
    /\ pc' = "done"
    /\ UNCHANGED <<session, scopes, tokenizer, source, scanner, scan2, scanned, ast, interp, ip, stdout>>

(***************************************************************************)
(* Parser::new(tokens).parse_expression(), as parse_expr_string of         *)
(* reader.rs calls it on the tokens of a source.                           *)
(***************************************************************************)
ParseExpression ==
    /\ pc = "parse" /\ session.kind = "run"
    /\ ast' = parse_expression(scanned.tokens, 0)
    /\ result' = CASE ast'.tag = "Ok" -> ROk
                    [] ast'.tag = "Err" ->
                           RErr("Parse", [kind |-> "SyntaxError", line |-> ast'.line,
                                          msg |-> ast'.msg, at |-> ast'.at])
                    [] ast'.tag = "Panic" -> RPanic("Parse")
    /\ pc' = "parsed"
    /\ UNCHANGED <<session, scopes, tokenizer, source, scanner, scan2, scanned, interp, ip,
                   stdout>>

(***************************************************************************)
(* run_prompt (main.rs): the next turn of the loop.  The outcome of the    *)
(* line before is reported, a new line is read and run_interp is called on *)
(* it with the same Interpreter.  A panic ends the process.                *)
(***************************************************************************)
\* the loop with a new Interpreter for every line
ReadLineFresh ==
    /\ session.kind = "prompt" /\ pc = "done"
    /\ result.tag \in {"Ok", "Err"}
    /\ session.line < MaxLines
    /\ session' = [session EXCEPT !.line = @ + 1, !.reported = Append(@, result.tag)]
    /\ source' \in ReplSources
    /\ scanner' = ScannerNew(source')
    /\ scan2' = ScanTokens2New
    /\ scanned' = Pending
    /\ ast' = NotParsed
    /\ interp' = InterpreterNew
    /\ ip' = 1
    /\ result' = Running
    /\ pc' = "scan"
    /\ UNCHANGED <<scopes, tokenizer, stdout>>

ReadLine ==
    /\ session.kind = "prompt" /\ pc = "done"
    /\ result.tag \in {"Ok", "Err"}
    /\ session.line < MaxLines
    /\ session' = [session EXCEPT !.line = @ + 1, !.reported = Append(@, result.tag)]
    /\ source' \in ReplSources
    /\ scanner' = ScannerNew(source')
    /\ scan2' = ScanTokens2New
    /\ scanned' = Pending
    /\ ast' = NotParsed
    /\ ip' = 1
    /\ result' = Running
    /\ pc' = "scan"
    /\ UNCHANGED <<scopes, tokenizer, interp, stdout>>

(***************************************************************************)
(* environ.rs: Environment::new with the innermost Environment as parent,  *)
(* and declare, assign and lookup on any Environment of the chain.  The    *)
(* call and what it returned are kept in result.                           *)
(***************************************************************************)
Called(method, scope, name, value, found) ==
    [tag |-> method, scope |-> scope, name |-> name, value |-> value, found |-> found]

\* the chain after a call on the Environment env of scope i
Stored(env, i) == Frames(env) \o SubSeq(scopes, i + 1, Len(scopes))

EnvironmentChild ==
    /\ pc = "environ"
    /\ Len(scopes) < MaxScopes
    /\ scopes' = Frames(EnvironmentNew(<<Scope(scopes, Len(scopes))>>))
    /\ result' = Called("new", Len(scopes'), "", <<>>, <<>>)
    /\ UNCHANGED <<session, tokenizer, source, scanner, scan2, scanned, ast, interp, ip,
                   stdout, pc>>

EnvironmentDeclare ==
    /\ pc = "environ"
    /\ \E i \in 1..Len(scopes), name \in Names, value \in Values :
           /\ scopes' = Stored(declare(Scope(scopes, i), name, value), i)
           /\ result' = Called("declare", i, name, <<value>>, <<>>)
    /\ UNCHANGED <<session, tokenizer, source, scanner, scan2, scanned, ast, interp, ip,
                   stdout, pc>>

EnvironmentAssign ==
    /\ pc = "environ"
    /\ \E i \in 1..Len(scopes), name \in Names, value \in Values :
           /\ scopes' = Stored(assign(Scope(scopes, i), name, value), i)
           /\ result' = Called("assign", i, name, <<value>>, <<>>)
    /\ UNCHANGED <<session, tokenizer, source, scanner, scan2, scanned, ast, interp, ip,
                   stdout, pc>>

EnvironmentLookup ==
    /\ pc = "environ"
    /\ \E i \in 1..Len(scopes), name \in Names :
           result' = Called("lookup", i, name, <<>>, lookup(Scope(scopes, i), name))
    /\ UNCHANGED <<session, scopes, tokenizer, source, scanner, scan2, scanned, ast, interp,
                   ip, stdout, pc>>

Next ==
    \/ ScannerScanToken
    \/ ScannerEof
    \/ Scan2Token
    \/ Scan2Eof
    \/ Tokenize
    \/ Parse
    \/ ParseExpression
    \/ ExecuteStatement
    \/ EvaluateOk
    \/ ReadLine
    \/ EnvironmentChild
    \/ EnvironmentDeclare
    \/ EnvironmentAssign
    \/ EnvironmentLookup

Spec == Init /\ [][Next]_vars

(***************************************************************************)
(* Helpers of the properties.                                              *)
(***************************************************************************)
RECURSIVE CountChar(_, _)
CountChar(s, c) ==
    IF s = "" THEN 0 ELSE (IF Head(s) = c THEN 1 ELSE 0) + CountChar(Tail(s), c)

IsEof(t) == t.toktype \in {"Eof", "TEof"}

FromSource == tokenizer \in {"Scanner", "tokenize", "tokenize2"}

\* the cursor of the scanner in use
Cursor == IF tokenizer = "Scanner" THEN scanner.current ELSE scan2.chars

\* the tokens the scanner in use has pushed so far
Pushed == IF tokenizer = "Scanner" THEN scanner.tokens ELSE scan2.result

\* the kind the scanner in use gives to the kind called k in tokenize.rs
Kind(k) == IF tokenizer = "Scanner" THEN k ELSE "T" \o k

ScanOver == FromSource /\ scanned.status # "pending"

\* a source in which every character outside one marked class is scanned by both scanners
Plain(s) == CountChar(s, "/") = 0 /\ CountChar(s, "_") = 0

(***************************************************************************)
(* C1: the token list a scanner returns holds exactly one end-of-input     *)
(* token, and it is the last element.                                      *)
(* Refuted by tokenize::tokenize of tokenize.rs, whose list is empty.      *)
(***************************************************************************)
C1_TokenListEndsWithOneEof ==
    (FromSource /\ scanned.status = "ok") =>
        /\ Len(scanned.tokens) >= 1
        /\ IsEof(scanned.tokens[Len(scanned.tokens)])
        /\ \A i \in 1..(Len(scanned.tokens) - 1) : ~IsEof(scanned.tokens[i])

\* what does hold: the lists returned by the two scan_tokens loops end with one Eof
ScanTokensEndWithOneEof ==
    (tokenizer \in {"Scanner", "tokenize2"} /\ scanned.status = "ok") =>
        /\ Len(scanned.tokens) >= 1
        /\ IsEof(scanned.tokens[Len(scanned.tokens)])
        /\ \A i \in 1..(Len(scanned.tokens) - 1) : ~IsEof(scanned.tokens[i])

(***************************************************************************)
(* C2: for any input, scanning ends normally: it does not abort, and the   *)
(* scan loop has reached the end of the input when it returns.             *)
(* Refuted by the todo!() arms of tokenize.rs and by the slice of          *)
(* tokenize2.rs on a lone quote (aborts), and by tokenize2.rs leaving the  *)
(* loop at the first character it does not know.                           *)
(***************************************************************************)
C2_ScanTerminatesNormally ==
    (tokenizer \in {"Scanner", "tokenize2"}) =>
        /\ scanned.status # "panic"
        /\ scanned.status = "ok" => Cursor = Len(source)

(***************************************************************************)
(* C3: a character that starts no token is recorded as exactly one         *)
(* UnexpectedCharacter error and scanning goes on behind it, to the end of *)
(* the input.  Stated for a source with one '$' outside strings and        *)
(* comments.                                                               *)
(***************************************************************************)
C3_UnexpectedCharacterRecovery ==
    (/\ tokenizer \in {"Scanner", "tokenize2"}
     /\ pc # "scan"
     /\ CountChar(source, "$") = 1
     /\ CountChar(source, "\"") = 0
     /\ Plain(source)) =>
        /\ scanned.status = "ok"
        /\ Len(scanned.errors) = 1
        /\ scanned.errors[1].kind = "UnexpectedCharacter"
        /\ scanned.errors[1].ch = "$"
        /\ Cursor = Len(source)

(***************************************************************************)
(* C4: a string literal left open at the end of the input yields exactly   *)
(* one UnterminatedString error and no String token, and the token list    *)
(* still ends with the end-of-input token.  Stated for a source with one   *)
(* double quote.                                                           *)
(***************************************************************************)
C4_UnterminatedString ==
    (/\ tokenizer \in {"Scanner", "tokenize2"}
     /\ pc # "scan"
     /\ CountChar(source, "\"") = 1
     /\ CountChar(source, "$") = 0
     /\ Plain(source)) =>
        /\ scanned.status = "ok"
        /\ Len(scanned.errors) = 1
        /\ scanned.errors[1].kind = "UnterminatedString"
        /\ \A i \in 1..Len(scanned.tokens) : scanned.tokens[i].toktype # Kind("String")
        /\ Len(scanned.tokens) >= 1
        /\ IsEof(scanned.tokens[Len(scanned.tokens)])

(***************************************************************************)
(* C5: the line counter is 1 plus the number of newlines consumed, every   *)
(* token carries the counter's value at the time it is pushed, and the     *)
(* end-of-input token carries 1 plus the number of newlines of the source. *)
(* Refuted by tokenize2.rs, whose line stays 1.                            *)
(***************************************************************************)
LineCounter == IF tokenizer = "Scanner" THEN scanner.line ELSE scan2.line

C5_LineCounter ==
    (tokenizer \in {"Scanner", "tokenize2"}) =>
        /\ LineCounter = 1 + CountChar(SubSeq(source, 1, Cursor), "\n")
        /\ (Pushed # <<>> /\ scanned.status = "pending") =>
                Pushed[Len(Pushed)].line <= LineCounter
        /\ (scanned.status = "ok" /\ Cursor = Len(source)) =>
                scanned.tokens[Len(scanned.tokens)].line = 1 + CountChar(source, "\n")

\* what does hold: the counter of tokenize.rs
ScannerLineCounter ==
    (tokenizer = "Scanner") =>
        /\ scanner.line = 1 + CountChar(SubSeq(source, 1, scanner.current), "\n")
        /\ scanned.status = "ok" =>
                scanned.tokens[Len(scanned.tokens)].line = 1 + CountChar(source, "\n")

(***************************************************************************)
(* C6: maximal munch.  A scan step that starts on '!', '=', '<' or '>'     *)
(* pushes exactly one token: when the next character is '=', the           *)
(* two-character kind with both characters as lexeme, the cursor moving by *)
(* two; otherwise the one-character kind with that character as lexeme,    *)
(* the cursor moving by one, so the next character is not consumed.        *)
(***************************************************************************)
MunchKind(c, two) ==
    CASE c = "!" -> IF two THEN "BangEqual" ELSE "Bang"
      [] c = "=" -> IF two THEN "EqualEqual" ELSE "Equal"
      [] c = "<" -> IF two THEN "LessEqual" ELSE "Less"
      [] c = ">" -> IF two THEN "GreaterEqual" ELSE "Greater"

OnCompareChar ==
    /\ tokenizer \in {"Scanner", "tokenize2"}
    /\ pc = "scan"
    /\ Cursor < Len(source)
    /\ CharAt(source, Cursor) \in {"!", "=", "<", ">"}

MunchStep ==
    OnCompareChar =>
        LET c == CharAt(source, Cursor)
            two == Cursor + 1 < Len(source) /\ CharAt(source, Cursor + 1) = "="
            lexeme == IF two THEN c \o "=" ELSE c
        IN  /\ Len(Pushed') = Len(Pushed) + 1
            /\ SubSeq(Pushed', 1, Len(Pushed)) = Pushed
            /\ Pushed'[Len(Pushed')].toktype = Kind(MunchKind(c, two))
            /\ Pushed'[Len(Pushed')].lexeme = lexeme
            /\ Cursor' = Cursor + Len(lexeme)

C6_MaximalMunch == [][MunchStep]_vars

\* a two-character operator and a one-character operator have both been scanned
C6_Witness ==
    /\ tokenizer = "tokenize2"
    /\ \E i \in 1..Len(scan2.result) :
            /\ scan2.result[i].toktype = "TLessEqual"
            /\ scan2.result[i].lexeme = "<="
    /\ \E j \in 1..Len(scan2.result) :
            /\ scan2.result[j].toktype \in {"TEqual", "TLess", "TBang", "TGreater"}
            /\ Len(scan2.result[j].lexeme) = 1

(***************************************************************************)
(* C7: a token whose lexeme is one of the sixteen reserved words has that  *)
(* word's own kind, and every other run of alphanumerics is an Identifier. *)
(* Refuted by scan_identifier of tokenize2.rs, which always answers        *)
(* TIdentifier.                                                            *)
(***************************************************************************)
ReservedKind ==
    {<<"and", "And">>, <<"class", "Class">>, <<"else", "Else">>, <<"false", "False">>,
     <<"for", "For">>, <<"fun", "Fun">>, <<"if", "If">>, <<"nil", "Nil">>,
     <<"or", "Or">>, <<"print", "Print">>, <<"return", "Return">>,
     <<"super", "Super">>, <<"this", "This">>, <<"true", "True">>,
     <<"var", "Var">>, <<"while", "While">>}

C7_KeywordTable ==
    (tokenizer \in {"Scanner", "tokenize2"}) =>
        \A i \in 1..Len(Pushed) :
            /\ \A kw \in ReservedKind :
                    Pushed[i].lexeme = kw[1] => Pushed[i].toktype = Kind(kw[2])
            /\ (\A kw \in ReservedKind : Pushed[i].lexeme # kw[1]) =>
                    Pushed[i].toktype \notin {Kind(kw[2]) : kw \in ReservedKind}

\* what does hold: the table of Scanner::identifier
ScannerKeywordTable ==
    (tokenizer = "Scanner") =>
        \A i \in 1..Len(scanner.tokens) :
            /\ \A kw \in ReservedKind :
                    scanner.tokens[i].lexeme = kw[1] => scanner.tokens[i].toktype = kw[2]
            /\ (\A kw \in ReservedKind : scanner.tokens[i].lexeme # kw[1]) =>
                    scanner.tokens[i].toktype \notin {kw[2] : kw \in ReservedKind}

(***************************************************************************)
(* C8: parsing an assignment whose left side is not a bare variable        *)
(* reference returns a SyntaxError, and parsing `x = 2;` yields the one    *)
(* statement Assign(x, 2).                                                 *)
(* Refuted by the panic!("invalid assignment target") of parse_assignment. *)
(***************************************************************************)
\* the token list opens with `left = value` where left parses to something else than a variable
InvalidTarget(toks) ==
    \E left \in {parse_binary(toks, 0)} :
        /\ left.tag = "Ok"
        /\ left.val.type # "EVariable"
        /\ accept(toks, left.n, "TEqual")
        /\ parse_assignment(toks, left.n + 1).tag = "Ok"

\* the token list is `x = 2 ;` for an identifier x
SimpleAssignment(toks) ==
    /\ Len(toks) = 5
    /\ toks[1].toktype = "TIdentifier"
    /\ toks[2].toktype = "TEqual"
    /\ toks[3].toktype = "TNumber"
    /\ toks[4].toktype = "TSemiColon"
    /\ toks[5].toktype = "TEof"

C8_AssignmentTarget ==
    (ast.tag # "None") =>
        /\ InvalidTarget(scanned.tokens) => ast.tag = "Err"
        /\ SimpleAssignment(scanned.tokens) =>
                /\ ast.tag = "Ok"
                /\ ast.val.top = <<SExpression(EAssign(scanned.tokens[1].lexeme,
                                                       ENumber(scanned.tokens[3].lexeme)))>>

\* what does hold: `x = 2;` parses to the one statement Assign(x, 2)
SimpleAssignmentParses ==
    (ast.tag # "None" /\ SimpleAssignment(scanned.tokens)) =>
        /\ ast.tag = "Ok"
        /\ ast.val.top = <<SExpression(EAssign(scanned.tokens[1].lexeme,
                                               ENumber(scanned.tokens[3].lexeme)))>>

(***************************************************************************)
(* C9: executing a statement whose expression is Variable(name), with name *)
(* not declared, returns the error UndefinedVariable(name) and leaves the  *)
(* environment as it was.                                                  *)
(* Refuted by the unwrap() of the EVariable arm, which panics.             *)
(***************************************************************************)
AtStatement == pc = "eval" /\ ip <= Len(ast.val.top)

UndefinedVariable(name) == [kind |-> "UndefinedVariable", name |-> name]

C9_Step ==
    (/\ AtStatement
     /\ ast.val.top[ip].type \in {"SPrint", "SExpression"}
     /\ ast.val.top[ip].expr.type = "EVariable"
     /\ lookup(interp.top_level, ast.val.top[ip].expr.name) = <<>>) =>
        /\ result' = RErr("Evaluate", UndefinedVariable(ast.val.top[ip].expr.name))
        /\ interp' = interp

C9_UndefinedVariableLookup == [][C9_Step]_vars

(***************************************************************************)
(* C10: executing Assign(name, value) with name not declared returns       *)
(* UndefinedVariable and creates no binding: lookup(name) still finds      *)
(* nothing afterwards.                                                     *)
(* Refuted by Environment::assign, which inserts the name.                 *)
(***************************************************************************)
C10_Step ==
    (/\ AtStatement
     /\ ast.val.top[ip].type = "SExpression"
     /\ ast.val.top[ip].expr.type = "EAssign"
     /\ lookup(interp.top_level, ast.val.top[ip].expr.name) = <<>>
     /\ evaluate_expression(ast.val.top[ip].expr.value, interp.top_level).tag = "Ok") =>
        /\ result' = RErr("Evaluate", UndefinedVariable(ast.val.top[ip].expr.name))
        /\ lookup(interp'.top_level, ast.val.top[ip].expr.name) = <<>>

C10_AssignUndeclared == [][C10_Step]_vars

(***************************************************************************)
(* C11: Assign(x, e) on a declared x evaluates e in the environment as it  *)
(* was, rebinds x to the value and yields it; so `var x = 1; x = x + 2;    *)
(* print x;` on a fresh environment prints 3 and leaves x bound to         *)
(* Number(3).                                                              *)
(* Refuted by the println!("{value:?}") of the SPrint arm: the line        *)
(* printed is LNumber(3.0).                                                *)
(***************************************************************************)
AssignProgram ==
    Numbered(<<Tok("TVar", "var"), TId("x"), TEq, TNum("1"), TSemi,
               TId("x"), TEq, TId("x"), Tok("TPlus", "+"), TNum("2"), TSemi,
               Tok("TPrint", "print"), TId("x"), TSemi>>)

AssignProgramDone == tokenizer = "Tokens" /\ scanned.tokens = AssignProgram /\ pc = "done"

C11_AssignSemantics ==
    AssignProgramDone =>
        /\ result = ROk
        /\ stdout = <<"3">>
        /\ lookup(interp.top_level, "x") = <<LNumber(F64(3, 1))>>

\* what does hold: the run succeeds, x is bound to 3, and the line is the Debug format
AssignProgramBindsThree ==
    AssignProgramDone =>
        /\ result = ROk
        /\ stdout = <<"LNumber(3.0)">>
        /\ lookup(interp.top_level, "x") = <<LNumber(F64(3, 1))>>

\* what does hold: an assignment statement whose value evaluates to v binds the name to v
AssignStep ==
    (/\ pc = "eval" /\ ip <= Len(ast.val.top)
     /\ ast.val.top[ip].type = "SExpression"
     /\ ast.val.top[ip].expr.type = "EAssign"
     /\ evaluate_expression(ast.val.top[ip].expr.value, interp.top_level).tag = "Ok") =>
        /\ lookup(interp'.top_level, ast.val.top[ip].expr.name) =
               <<evaluate_expression(ast.val.top[ip].expr.value, interp.top_level).val>>
        /\ ip' = ip + 1

AssignRebinds == [][AssignStep]_vars

(***************************************************************************)
(* C12: the statements of a program are executed in program order and      *)
(* evaluation is fail-fast.  A statement that succeeds is followed by the  *)
(* next one.  The first statement that fails ends the run with its error:  *)
(* it prints nothing, the lines printed before stay, every binding made    *)
(* before stays (with its value, unless the failing statement itself       *)
(* assigned the name), and nothing is printed or bound after it.           *)
(***************************************************************************)
RECURSIVE AssignedIn(_)
AssignedIn(expr) ==
    CASE expr.type = "EAssign" -> {expr.name} \cup AssignedIn(expr.value)
      [] expr.type = "EBinary" -> AssignedIn(expr.left) \cup AssignedIn(expr.right)
      [] expr.type = "EUnary" -> AssignedIn(expr.right)
      [] expr.type = "EGrouping" -> AssignedIn(expr.expr)
      [] OTHER -> {}

BoundBy(stmt) ==
    CASE stmt.type = "SVarDecl" ->
            {stmt.name} \cup (IF stmt.initializer = <<>> THEN {}
                              ELSE AssignedIn(stmt.initializer[1]))
      [] OTHER -> AssignedIn(stmt.expr)

Failed == result.tag \in {"Err", "Panic"} /\ result.stage = "Evaluate"

KeptBindings(stmt) ==
    \A n \in DOMAIN interp.top_level.vars :
        /\ n \in DOMAIN interp'.top_level.vars
        /\ n \notin BoundBy(stmt) => interp'.top_level.vars[n] = interp.top_level.vars[n]

FailFastStep ==
    /\ (pc = "eval" /\ ip <= Len(ast.val.top)) =>
          IF execute_statement(ast.val.top[ip], interp.top_level).r.tag = "Ok"
          THEN ip' = ip + 1 /\ pc' = "eval" /\ result' = result
          ELSE /\ pc' = "done" /\ ip' = ip
               /\ result'.tag \in {"Err", "Panic"} /\ result'.stage = "Evaluate"
               /\ stdout' = stdout
               /\ KeptBindings(ast.val.top[ip])
    /\ (Failed /\ session' = session) => (interp' = interp /\ stdout' = stdout)

C12_FailFastInOrder == [][FailFastStep]_vars

\* the third statement of a program failed: the declaration and the print before it
\* stand, the assignment and the print after it did not happen
C12_Witness ==
    /\ tokenizer = "AST" /\ pc = "done"
    /\ result = RErr("Evaluate", ZeroDivision)
    /\ ip = 3 /\ Len(ast.val.top) = 5
    /\ stdout = <<"LNumber(1.0)">>
    /\ lookup(interp.top_level, "x") = <<LNumber(F64(1, 1))>>

(***************************************************************************)
(* C13: Binary(l, Div, r) on two Numbers returns ZeroDivision, and never a *)
(* Number, when r is zero; otherwise it returns Number(l / r), the number  *)
(* whose product with r is l.  Stated on the third statement of a program: *)
(* `var y = l / r;` binds y to the quotient or fails with ZeroDivision     *)
(* and binds nothing; `print l / r;` prints one line or fails and prints   *)
(* nothing.                                                                *)
(***************************************************************************)
\* the binary expression of the statement about to be executed, if it has one
BinaryStatement ==
    /\ pc = "eval" /\ ip <= Len(ast.val.top)
    /\ IF ast.val.top[ip].type = "SVarDecl"
       THEN /\ ast.val.top[ip].initializer # <<>>
            /\ ast.val.top[ip].initializer[1].type = "EBinary"
       ELSE ast.val.top[ip].expr.type = "EBinary"

Operation ==
    IF ast.val.top[ip].type = "SVarDecl"
    THEN ast.val.top[ip].initializer[1] ELSE ast.val.top[ip].expr

DivisionOfNumbers ==
    /\ BinaryStatement
    /\ Operation.op = "ODiv"
    /\ Operation.left.type = "ENumber" /\ Operation.right.type = "ENumber"

DivisionStep ==
    DivisionOfNumbers =>
        LET l == ParseF64(Operation.left.value)
            r == ParseF64(Operation.right.value)
            declares == ast.val.top[ip].type = "SVarDecl"
        IN  IF r.num = 0
            THEN /\ result' = RErr("Evaluate", [kind |-> "ZeroDivision"])
                 /\ stdout' = stdout
                 /\ interp' = interp
            ELSE /\ result' = result
                 /\ declares =>
                       \E v \in {interp'.top_level.vars[ast.val.top[ip].name]} :
                           v.tag = "LNumber" /\ FMul(v.x, r) = l
                 /\ ~declares => Len(stdout') = Len(stdout) + 1

C13_DivisionByZero == [][DivisionStep]_vars

\* the third statement of the program is `var y = l op r;` on the number literals l, r
DeclaresNumbers(l, op, r) ==
    /\ tokenizer = "AST" /\ Len(ast.val.top) = 5
    /\ ast.val.top[3].type = "SVarDecl"
    /\ ast.val.top[3].initializer[1].op = op
    /\ ast.val.top[3].initializer[1].left.type = "ENumber"
    /\ ast.val.top[3].initializer[1].left.value = l
    /\ ast.val.top[3].initializer[1].right.type = "ENumber"
    /\ ast.val.top[3].initializer[1].right.value = r

C13_Witness ==
    /\ DeclaresNumbers("2", "ODiv", "0")
    /\ pc = "done" /\ ip = 3
    /\ result = RErr("Evaluate", [kind |-> "ZeroDivision"])
    /\ lookup(interp.top_level, "y") = <<>>

\* the other case of C13: y is bound to the quotient
QuotientBound ==
    /\ DeclaresNumbers("1", "ODiv", "2")
    /\ ip > 3
    /\ lookup(interp.top_level, "y") = <<LNumber(F64(1, 2))>>

(***************************************************************************)
(* C14: for the operators + - * / < <= > >= and every pair of operand      *)
(* tags, evaluation succeeds only on two Numbers, or on two Strings with   *)
(* +, which yields their concatenation; every other pair of tags returns   *)
(* UnsupportedBinOp with the left value, the operator and the right value. *)
(* Stated on the third statement of a program whose operands are literals. *)
(***************************************************************************)
ArithmeticOrOrdering == {"OAdd", "OSub", "OMul", "ODiv", "OLt", "OLe", "OGt", "OGe"}

IsLiteral(e) == e.type \in {"ENumber", "EString", "ENil", "EBool"}

\* the value a literal stands for
LiteralValue(e) ==
    CASE e.type = "ENumber" -> [tag |-> "LNumber", x |-> ParseF64(e.value)]
      [] e.type = "EString" -> [tag |-> "LString", str |-> e.value]
      [] e.type = "EBool" -> [tag |-> "LBoolean", b |-> e.value]
      [] e.type = "ENil" -> [tag |-> "LNil"]

OperationOnLiterals ==
    /\ BinaryStatement
    /\ Operation.op \in ArithmeticOrOrdering
    /\ IsLiteral(Operation.left) /\ IsLiteral(Operation.right)

TagsStep ==
    OperationOnLiterals =>
        LET lt == Operation.left.type
            rt == Operation.right.type
            declares == ast.val.top[ip].type = "SVarDecl"
        IN  CASE lt = "EString" /\ rt = "EString" /\ Operation.op = "OAdd" ->
                    /\ result' = result /\ ip' = ip + 1
                    /\ declares =>
                          interp'.top_level.vars[ast.val.top[ip].name] =
                              [tag |-> "LString",
                               str |-> Operation.left.value \o Operation.right.value]
              [] lt = "ENumber" /\ rt = "ENumber" ->
                    \/ result' = result /\ ip' = ip + 1
                    \/ result'.tag = "Err" /\ result'.error.kind = "ZeroDivision"
              [] OTHER ->
                    /\ result'.tag = "Err" /\ result'.stage = "Evaluate"
                    /\ result'.error =
                          [kind |-> "UnsupportedBinOp",
                           left |-> LiteralValue(Operation.left),
                           op |-> Operation.op,
                           right |-> LiteralValue(Operation.right)]
                    /\ ip' = ip /\ interp' = interp /\ stdout' = stdout

C14_UnsupportedBinOp == [][TagsStep]_vars

\* `var y = 1 + "a";` failed with UnsupportedBinOp(Number 1, +, String a)
C14_Witness ==
    /\ tokenizer = "AST" /\ pc = "done" /\ ip = 3
    /\ ast.val.top[3].type = "SVarDecl"
    /\ result.tag = "Err"
    /\ result.error.kind = "UnsupportedBinOp"
    /\ result.error.left = [tag |-> "LNumber", x |-> F64(1, 1)]
    /\ result.error.op = "OAdd"
    /\ result.error.right = [tag |-> "LString", str |-> "a"]

\* the other case of C14: `var y = "a" + "a";` binds y to the concatenation
ConcatenationBound ==
    /\ tokenizer = "AST" /\ ip > 3
    /\ ast.val.top[3].type = "SVarDecl"
    /\ lookup(interp.top_level, "y") = <<[tag |-> "LString", str |-> "aa"]>>

(***************************************************************************)
(* C15: lookup(n) on an Environment walks the parent chain: it returns the *)
(* value of n in the nearest Environment, from the current one to the      *)
(* root, that declares n, and finds nothing only when none declares it.    *)
(* Refuted by Environment::lookup, which reads only its own vars.          *)
(***************************************************************************)
\* the nearest scope from i down to the root that declares n, or 0
RECURSIVE NearestScope(_, _, _)
NearestScope(sc, i, n) ==
    IF i = 0 THEN 0
    ELSE IF n \in DOMAIN sc[i] THEN i
    ELSE NearestScope(sc, i - 1, n)

Nearest(sc, i, n) ==
    IF NearestScope(sc, i, n) = 0 THEN <<>> ELSE <<sc[NearestScope(sc, i, n)][n]>>

Looked == tokenizer = "Environment" /\ result.tag = "lookup"

C15_LookupWalksParents ==
    Looked => result.found = Nearest(scopes, result.scope, result.name)

\* what does hold: lookup answers from the vars of the Environment it is called on
LookupOwnScope ==
    Looked =>
        result.found = (IF result.name \in DOMAIN scopes[result.scope]
                        THEN <<scopes[result.scope][result.name]>> ELSE <<>>)

(***************************************************************************)
(* C16: assign(n, v) changes exactly one binding, that of n in the nearest *)
(* Environment that already declares n.  It adds no binding to any         *)
(* Environment and leaves every other binding as it was.                   *)
(* Refuted by Environment::assign, which inserts n into its own vars.      *)
(***************************************************************************)
Assigning == tokenizer = "Environment" /\ pc = "environ" /\ result'.tag = "assign"

AssignFrameStep ==
    Assigning =>
        LET j == NearestScope(scopes, result'.scope, result'.name)
        IN  /\ \A k \in 1..Len(scopes) : DOMAIN scopes'[k] = DOMAIN scopes[k]
            /\ j # 0 =>
                  scopes' = [scopes EXCEPT ![j][result'.name] = result'.value[1]]

C16_AssignFrame == [][AssignFrameStep]_vars

\* what does hold: assign on an Environment that declares n itself rebinds n there only
AssignOwnScopeStep ==
    (Assigning /\ result'.name \in DOMAIN scopes[result'.scope]) =>
        scopes' = [scopes EXCEPT ![result'.scope][result'.name] = result'.value[1]]

AssignOwnScope == [][AssignOwnScopeStep]_vars

(***************************************************************************)
(* C17: declare(n, v) affects only the Environment it is called on: n is   *)
(* bound to v there, replacing a binding of n it had, the bindings of its  *)
(* ancestors and descendants stay as they were, and a lookup(n) after it   *)
(* returns v.  So `var x = 1; var x = 2; print x;` prints 2.               *)
(* Refuted by the println!("{value:?}") of the SPrint arm: the line        *)
(* printed is LNumber(2.0).                                                *)
(***************************************************************************)
Declaring == tokenizer = "Environment" /\ pc = "environ" /\ result'.tag = "declare"

DeclareFrameStep ==
    Declaring =>
        /\ Len(scopes') = Len(scopes)
        /\ \A k \in 1..Len(scopes) :
              IF k = result'.scope
              THEN /\ DOMAIN scopes'[k] = DOMAIN scopes[k] \cup {result'.name}
                   /\ \A n \in DOMAIN scopes'[k] :
                         scopes'[k][n] = IF n = result'.name THEN result'.value[1]
                                         ELSE scopes[k][n]
              ELSE scopes'[k] = scopes[k]
        /\ lookup(Scope(scopes', result'.scope), result'.name) = result'.value

RedeclarationDone ==
    /\ tokenizer = "AST" /\ pc = "done"
    /\ Len(ast.val.top) = 3

RedeclarationPrintsTwo ==
    RedeclarationDone =>
        /\ result = ROk
        /\ stdout = <<"2">>
        /\ lookup(interp.top_level, "x") = <<LNumber(F64(2, 1))>>

C17_DeclareShadows == [][DeclareFrameStep /\ RedeclarationPrintsTwo']_vars

\* what does hold: the frame of declare, and x bound to 2 at the end of the program
DeclareFrame == [][DeclareFrameStep]_vars

\* a declaration in a child Environment of a name its parent declares: both bindings stand
DeclareShadowed ==
    /\ tokenizer = "Environment" /\ Len(scopes) = 2
    /\ result.tag = "declare" /\ result.scope = 2 /\ result.name = "x"
    /\ "x" \in DOMAIN scopes[1] /\ "x" \in DOMAIN scopes[2]
    /\ scopes[1]["x"] # scopes[2]["x"]

RedeclarationBindsTwo ==
    RedeclarationDone =>
        /\ result = ROk
        /\ stdout = <<"LNumber(2.0)">>
        /\ lookup(interp.top_level, "x") = <<LNumber(F64(2, 1))>>

(***************************************************************************)
(* C18: in one prompt session every binding made by an earlier line stays, *)
(* with its latest value, for all later lines, also across a line that     *)
(* failed: a binding changes only when a statement that binds its name is  *)
(* executed, reading a new line changes no binding, and a statement that   *)
(* reads a bound name finds it.  A session starts with no binding.         *)
(***************************************************************************)
StartsEmpty ==
    (session.line = 1 /\ pc \in {"scan", "parse"}) => interp = InterpreterNew

PersistenceStep ==
    /\ \A n \in DOMAIN interp.top_level.vars :
          /\ n \in DOMAIN interp'.top_level.vars
          /\ interp'.top_level.vars[n] # interp.top_level.vars[n] =>
                (pc = "eval" /\ n \in BoundBy(ast.val.top[ip]))
    /\ session'.line # session.line =>
          (session'.kind = "prompt" /\ interp' = interp /\ stdout' = stdout)
    /\ (/\ pc = "eval" /\ ip <= Len(ast.val.top)
        /\ ast.val.top[ip].type = "SExpression"
        /\ ast.val.top[ip].expr.type = "EVariable"
        /\ ast.val.top[ip].expr.name \in DOMAIN interp.top_level.vars) =>
          (ip' = ip + 1 /\ result' = result /\ interp' = interp)

ExpectedExpr(s) ==
    CASE s = "123" -> ENumber("123")
      [] s = "\"hello\"" -> EString("hello")
      [] s = "(2)" -> EGrouping(ENumber("2"))
      [] s = "nil" -> ENil
      [] s = "true" -> EBool(TRUE)
      [] s = "false" -> EBool(FALSE)
      [] s = "1 + 2" -> EBinary(ENumber("1"), "OAdd", ENumber("2"))

ParsedAs(e) == ast.tag = "Ok" /\ ast.val.type = e.type /\ ast.val = e

ExpressionParsed == pc = "parsed" /\ source \in ExprSources

C19_ExpressionShapes ==
    (ExpressionParsed /\ tokenizer \in {"tokenize", "tokenize2"}) =>
        ParsedAs(ExpectedExpr(source))

\* what does hold: the tokens of tokenize2.rs parse to the node for every source
\* of the list but the three reserved words
Tokenize2Shapes ==
    (ExpressionParsed /\ tokenizer = "tokenize2"
        /\ source \notin {"nil", "true", "false"}) =>
        ParsedAs(ExpectedExpr(source))

\* what does hold: parse_primary on the tokens TNil, TTrue, TNumber, TString
PrimaryShapes ==
    (pc = "parsed" /\ tokenizer = "Tokens" /\ Len(scanned.tokens) = 2) =>
        LET t == scanned.tokens[1]
        IN  CASE t.toktype = "TNil" -> ParsedAs(ENil)
              [] t.toktype = "TTrue" -> ParsedAs(EBool(TRUE))
              [] t.toktype = "TNumber" -> ParsedAs(ENumber(t.lexeme))
              [] t.toktype = "TString" ->
                    ParsedAs(EString(SubSeq(t.lexeme, 2, Len(t.lexeme) - 1)))
              [] t.toktype = "TIdentifier" -> ParsedAs(EVariable(t.lexeme))
              [] OTHER -> ast.tag # "Ok"

(***************************************************************************)
(* C20: when the scanner meets '/' and the next character is '/' too, it   *)
(* consumes the characters up to, and not including, the next newline or   *)
(* the end of input, emits no token for them and goes on scanning; when    *)
(* the next character is another one, it emits one Slash token for the '/' *)
(* and goes on scanning.                                                   *)
(* Refuted by tokenize2.rs, whose scan_token knows no '/': it answers None *)
(* and the scan ends there.                                                *)
(***************************************************************************)
\* the index of the first newline of s at or after i, or the length of s
RECURSIVE NextNewline(_, _)
NextNewline(s, i) ==
    IF i >= Len(s) THEN Len(s)
    ELSE IF CharAt(s, i) = "\n" THEN i
    ELSE NextNewline(s, i + 1)

OnSlash ==
    /\ pc = "scan"
    /\ Cursor < Len(source)
    /\ CharAt(source, Cursor) = "/"

SlashStep ==
    OnSlash =>
        IF Cursor + 1 < Len(source) /\ CharAt(source, Cursor + 1) = "/"
        THEN /\ Pushed' = Pushed
             /\ Cursor' = NextNewline(source, Cursor)
             /\ pc' = "scan"
        ELSE /\ Len(Pushed') = Len(Pushed) + 1
             /\ SubSeq(Pushed', 1, Len(Pushed)) = Pushed
             /\ Pushed'[Len(Pushed')].toktype = Kind("Slash")
             /\ Pushed'[Len(Pushed')].lexeme = "/"
             /\ Cursor' = Cursor + 1
             /\ pc' = "scan"

C20_Step == (tokenizer \in {"Scanner", "tokenize2"}) => SlashStep

C20_CommentsAndSlash == [][C20_Step]_vars

\* what does hold: the Scanner of tokenize.rs scans comments and slashes as claimed
ScannerSlashStep == (tokenizer = "Scanner") => SlashStep

ScannerCommentsAndSlash == [][ScannerSlashStep]_vars

\* the Scanner has skipped a comment and scanned the number on the line after it
CommentSkipped ==
    /\ tokenizer = "Scanner" /\ source = "//x\n1"
    /\ scanned.status = "ok"
    /\ Len(scanned.tokens) = 2
    /\ scanned.tokens[1].toktype = "Number" /\ scanned.tokens[1].line = 2

(***************************************************************************)
(* C21: when a run of digits is followed by a '.' that no digit follows,   *)
(* the number token's lexeme is the run of digits, the '.' is left for the *)
(* next token, and that token is a Dot: `1.` scans to Number, Dot, Eof.    *)
(* Refuted by both scanners, whose number loops consume the '.' without    *)
(* looking behind it.                                                      *)
(***************************************************************************)
\* the index of the first character of s at or after i that is no digit
RECURSIVE DigitsEnd(_, _)
DigitsEnd(s, i) ==
    IF i >= Len(s) THEN Len(s)
    ELSE IF is_digit(CharAt(s, i)) THEN DigitsEnd(s, i + 1)
    ELSE i

OnTrailingDot ==
    /\ tokenizer \in {"Scanner", "tokenize2"}
    /\ pc = "scan"
    /\ Cursor < Len(source)
    /\ is_digit(CharAt(source, Cursor))
    /\ DigitsEnd(source, Cursor) < Len(source)
    /\ CharAt(source, DigitsEnd(source, Cursor)) = "."
    /\ ~(/\ DigitsEnd(source, Cursor) + 1 < Len(source)
         /\ is_digit(CharAt(source, DigitsEnd(source, Cursor) + 1)))

TrailingDotStep ==
    OnTrailingDot =>
        /\ Len(Pushed') = Len(Pushed) + 1
        /\ Pushed'[Len(Pushed')].toktype = Kind("Number")
        /\ Pushed'[Len(Pushed')].lexeme = Slice(source, Cursor, DigitsEnd(source, Cursor))
        /\ Cursor' = DigitsEnd(source, Cursor)

\* the kinds of the tokens of a finished scan
Kinds == [i \in 1..Len(scanned.tokens) |-> scanned.tokens[i].toktype]

OneDotScanned ==
    (tokenizer \in {"Scanner", "tokenize2"} /\ source = "1." /\ scanned.status # "pending") =>
        /\ scanned.status = "ok"
        /\ Kinds = <<Kind("Number"), Kind("Dot"), Kind("Eof")>>
        /\ scanned.tokens[1].lexeme = "1"

C21_TrailingDot == [][TrailingDotStep /\ OneDotScanned']_vars

\* what does hold: a '.' between two digits is part of the number, for both scanners
FractionStep ==
    (/\ tokenizer \in {"Scanner", "tokenize2"}
     /\ pc = "scan" /\ source = "1.5" /\ Cursor = 0) =>
        /\ Len(Pushed') = 1
        /\ Pushed'[1].toktype = Kind("Number")
        /\ Pushed'[1].lexeme = "1.5"
        /\ Cursor' = 3

FractionScanned == [][FractionStep]_vars

(***************************************************************************)
(* C22: expressions are parsed with separate precedence levels, equality   *)
(* below comparison below addition: `1 + 2 == 3` parses, whole, to         *)
(* Binary(Binary(1, Add, 2), Eq, 3) and `1 < 2 + 3` parses, whole, to      *)
(* Binary(1, Lt, Binary(2, Add, 3)).                                       *)
(* Refuted by parse_binary, which has one level for all ten operators and  *)
(* reads one operator at most: it stops in front of the second one.        *)
(***************************************************************************)
TwoOperatorsParsed ==
    /\ pc = "parsed"
    /\ \/ tokenizer = "tokenize2" /\ source \in {"1 + 2 == 3", "1 < 2 + 3"}
       \/ tokenizer = "Tokens" /\ scanned.tokens \in PrecedenceTokens

ExpectedPrecedence ==
    IF scanned.tokens[2].toktype = "TPlus"
    THEN EBinary(EBinary(ENumber("1"), "OAdd", ENumber("2")), "OEq", ENumber("3"))
    ELSE EBinary(ENumber("1"), "OLt", EBinary(ENumber("2"), "OAdd", ENumber("3")))

C22_Precedence ==
    TwoOperatorsParsed =>
        /\ ast.tag = "Ok"
        /\ ast.n = 5
        /\ ast.val.type = "EBinary"
        /\ ast.val.op = ExpectedPrecedence.op
        /\ ast.val.left.type = ExpectedPrecedence.left.type
        /\ ast.val.right.type = ExpectedPrecedence.right.type
        /\ ast.val = ExpectedPrecedence

\* what does hold: the scan of tokenize2.rs yields the five tokens and TEof, and
\* parse_expression answers the node of the first operator with the cursor on
\* the second one
FirstOperatorOnly ==
    TwoOperatorsParsed =>
        /\ Len(scanned.tokens) = 6
        /\ ast.tag = "Ok"
        /\ ast.n = 3
        /\ ast.val.type = "EBinary"
        /\ ast.val.op = OperatorFrom(scanned.tokens[2])
        /\ ast.val.left = ENumber("1")
        /\ ast.val.right = ENumber("2")

\* what does hold: as a statement, `1 + 2 == 3;` is a SyntaxError at the second
\* operator
TwoOperatorStatementRejected ==
    (pc \in {"eval", "done"} /\ tokenizer = "tokenize2" /\ source = "1 + 2 == 3;") =>
        /\ ast.tag = "Err"
        /\ ast.n = 3
        /\ ast.at = "=="

(***************************************************************************)
(* C23: in every state of the parser the cursor is an index of the token   *)
(* list and has not passed the end-of-input token, and a SyntaxError reads *)
(* an existing token: it carries the line of the token under the cursor,   *)
(* the first one that was not consumed.  The cursor only grows (accept and *)
(* accepts are its only writers), so the bound is stated on the cursor the *)
(* parser call ends with.                                                  *)
(* Refuted on the token list of tokenize of tokenize.rs, which is empty:   *)
(* the cursor 0 is no index of it, and syntax_error panics on tokens[0].   *)
(***************************************************************************)
ParserCalled ==
    /\ tokenizer \in {"tokenize", "tokenize2", "Tokens"}
    /\ ast.tag # "None"

CursorInTokens ==
    /\ ast.n < Len(scanned.tokens)
    /\ \A k \in 1..ast.n : k <= Len(scanned.tokens) => scanned.tokens[k].toktype # "TEof"
    /\ ast.tag = "Err" =>
            /\ ast.line = scanned.tokens[ast.n + 1].line
            /\ ast.at = scanned.tokens[ast.n + 1].lexeme
    /\ ast.tag = "Panic" => ast.msg # "index out of bounds"

C23_CursorInTokens == ParserCalled => CursorInTokens

\* what does hold: the same on every token list that ends with TEof, which are
\* the lists of tokenize2.rs and the lists handed to Parser::new directly
EofTerminatedCursor ==
    (ParserCalled /\ tokenizer \in {"tokenize2", "Tokens"}) =>
        /\ scanned.tokens[Len(scanned.tokens)].toktype = "TEof"
        /\ CursorInTokens

\* reached: a SyntaxError on the third token of four, and a parse that ends on TEof
SyntaxErrorInside ==
    /\ ParserCalled /\ tokenizer = "Tokens"
    /\ ast.tag = "Err" /\ ast.n = 2 /\ ast.line = 3
    /\ Len(scanned.tokens) = 4

ParsedToEof ==
    /\ ParserCalled /\ tokenizer = "tokenize2"
    /\ ast.tag = "Ok" /\ ast.n > 0
    /\ scanned.tokens[ast.n + 1].toktype = "TEof"

(***************************************************************************)
(* C24: every String token a scanner emits has a lexeme of two characters  *)
(* at least that begins and ends with a double quote, so that the slice    *)
(* lexeme[1 .. len-1] of parse_primary is in bounds and is the text        *)
(* between the quotes of the source.                                       *)
(* Refuted by scan_string of tokenize2.rs, which ends a string at the end  *)
(* of the input as well: the lexeme of an unterminated string has no       *)
(* closing quote and the slice drops its last character.                   *)
(***************************************************************************)
Quoted(lexeme) ==
    /\ Len(lexeme) >= 2
    /\ CharAt(lexeme, 0) = "\""
    /\ CharAt(lexeme, Len(lexeme) - 1) = "\""

StringTokensQuoted ==
    \A i \in 1..Len(Pushed) : Pushed[i].toktype = Kind("String") => Quoted(Pushed[i].lexeme)

\* a source that opens with a string was parsed to a String node
StringParsed ==
    /\ tokenizer = "tokenize2" /\ pc = "parsed"
    /\ Len(scanned.tokens) >= 1 /\ scanned.tokens[1].toktype = "TString"
    /\ ast.tag = "Ok" /\ ast.val.type = "EString"

BetweenQuotes ==
    StringParsed =>
        \E j \in 1..(Len(source) - 1) :
            /\ CharAt(source, j) = "\""
            /\ \A k \in 1..(j - 1) : CharAt(source, k) # "\""
            /\ ast.val.value = Slice(source, 1, j)

C24_StringLexemes ==
    /\ tokenizer \in {"Scanner", "tokenize2"} => StringTokensQuoted
    /\ BetweenQuotes

\* what does hold: the String tokens of the Scanner of tokenize.rs are quoted
ScannerStringsQuoted == tokenizer = "Scanner" => StringTokensQuoted

\* what does hold: the TString lexemes of tokenize2.rs open with a quote and have
\* two characters at least, so the slice of parse_primary is in bounds
Tokenize2StringsInBounds ==
    tokenizer = "tokenize2" =>
        /\ \A i \in 1..Len(Pushed) : Pushed[i].toktype = "TString" =>
                /\ Len(Pushed[i].lexeme) >= 2
                /\ CharAt(Pushed[i].lexeme, 0) = "\""
        /\ (pc = "parsed" /\ ast.tag = "Panic") => ast.msg # "slice index out of range"

\* what does hold: a program that parse accepts has quoted TString tokens only,
\* an unterminated string being the last token and no statement ending with it
AcceptedProgramsQuoted ==
    (tokenizer = "tokenize2" /\ pc \in {"eval", "done"} /\ ast.tag = "Ok") =>
        \A i \in 1..Len(scanned.tokens) :
            scanned.tokens[i].toktype = "TString" => Quoted(scanned.tokens[i].lexeme)

\* reached: a terminated string scanned by each scanner, and parsed
ScannerStringScanned ==
    /\ tokenizer = "Scanner" /\ source = "\"a\"" /\ scanned.status = "ok"
    /\ scanned.tokens[1].lexeme = "\"a\""

TerminatedStringParsed == StringParsed /\ source = "\"a\"" /\ ast.val.value = "a"

====
